---- MODULE Spec2Model ----
(***************************************************************************)
(* Model of the /list-contents endpoint (api/routers/cdn.py) and of the    *)
(* Bunny CDN client (api/services/bunny_cdn.py).                           *)
(*                                                                         *)
(* Python values are encoded as records so that values of different        *)
(* Python types can be compared: None is [none |-> TRUE], a str is         *)
(* [str |-> ...], a number is [num |-> ...], a dict is a function from     *)
(* its keys to values.  File names are sequences of characters so that     *)
(* str.lower() and str.endswith() are computed, not assumed.               *)
(***************************************************************************)
EXTENDS Integers, Sequences, FiniteSets, TLC

VARIABLES
    dir,        \* what the Directory Lister answers for the path: [ok, entries]
    shared,     \* TRUE when the Lister hands out the same dict objects on every call
    remote,     \* what the CDN answers to the GET of the k-th listed entry
    pc,         \* position of the handler: idle, listing, loop, fetch, done
    call,       \* number of requests started so far
    listed,     \* the list get_directory_contents returned to this request
    contents,   \* the handler's local list `contents`
    i,          \* 1-based position of the for loop in `contents`
    log,        \* GETs issued by this request, in order: [idx, video_id]
    fetched,    \* result of get_video_metadata for the entries fetched by this request
    response,   \* the dict returned by this request
    responses   \* the dicts returned by the completed requests, in order

vars == <<dir, shared, remote, pc, call, listed, contents, i, log, fetched,
          response, responses>>

(***************************************************************************)
(* Bounds                                                                  *)
(***************************************************************************)
MaxLen == 2
MaxLenRaw == 3
MaxCalls == 2

(***************************************************************************)
(* Python values                                                           *)
(***************************************************************************)
None == [none |-> TRUE]
Str(s) == [str |-> s]
Num(n) == [num |-> n]
EmptyDict == [k \in {} |-> None]

\* dict.get(key): the value, or None when the key is absent
Get(d, k) == IF k \in DOMAIN d THEN d[k] ELSE None

\* d[key] = value on a dict
SetItem(d, k, v) == [x \in DOMAIN d \cup {k} |-> IF x = k THEN v ELSE d[x]]

LowerChar(c) ==
    CASE c = "A" -> "a" [] c = "B" -> "b" [] c = "C" -> "c" [] c = "D" -> "d"
      [] c = "E" -> "e" [] c = "F" -> "f" [] c = "G" -> "g" [] c = "H" -> "h"
      [] c = "I" -> "i" [] c = "J" -> "j" [] c = "K" -> "k" [] c = "L" -> "l"
      [] c = "M" -> "m" [] c = "N" -> "n" [] c = "O" -> "o" [] c = "P" -> "p"
      [] c = "Q" -> "q" [] c = "R" -> "r" [] c = "S" -> "s" [] c = "T" -> "t"
      [] c = "U" -> "u" [] c = "V" -> "v" [] c = "W" -> "w" [] c = "X" -> "x"
      [] c = "Y" -> "y" [] c = "Z" -> "z" [] OTHER -> c

\* str.lower()
lower(s) == [n \in DOMAIN s |-> LowerChar(s[n])]

\* str.endswith(suffix)
endswith(s, suffix) ==
    /\ Len(s) >= Len(suffix)
    /\ SubSeq(s, Len(s) - Len(suffix) + 1, Len(s)) = suffix

\* the tuple ('.mp4', '.mov', '.webm')
VideoExtensions ==
    { <<".", "m", "p", "4">>, <<".", "m", "o", "v">>, <<".", "w", "e", "b", "m">> }

(***************************************************************************)
(* Exceptions: a class name and the parts of the message str(e) yields     *)
(***************************************************************************)
Exc(cls, msg) == [exc |-> cls, msg |-> msg]
str(e) == e.msg
Returned(v) == [raised |-> FALSE, value |-> v]
Raised(e) == [raised |-> TRUE, error |-> e]

(***************************************************************************)
(* The remote API: what one GET /videos/{video_id} can produce             *)
(***************************************************************************)
FullBody ==
    [k \in {"length", "width", "height", "encode", "status", "title"} |->
        CASE k = "length" -> Num(120) [] k = "width" -> Num(1920)
          [] k = "height" -> Num(1080) [] k = "encode" -> Str("h264")
          [] k = "status" -> Str("ready") [] OTHER -> Str("clip")]
PartialBody == [k \in {"length", "status"} |-> IF k = "length" THEN Num(7) ELSE None]

Json(kind, data) == [kind |-> kind, data |-> data]
HttpResponse(status, text, json) ==
    [transport |-> "ok", status |-> status, text |-> text, json |-> json]
TransportError ==
    [transport |-> "error", status |-> 0, text |-> "", json |-> Json("invalid", EmptyDict)]

Outcomes ==
    { HttpResponse(200, "full", Json("object", FullBody)),
      HttpResponse(200, "partial", Json("object", PartialBody)),
      HttpResponse(200, "<html>", Json("invalid", EmptyDict)),
      HttpResponse(200, "[]", Json("array", EmptyDict)),
      HttpResponse(201, "full", Json("object", FullBody)),
      HttpResponse(404, "Not Found", Json("invalid", EmptyDict)),
      TransportError }

(***************************************************************************)
(* BunnyCDN.get_video_metadata                                             *)
(***************************************************************************)
IsSuccessStatusAny2xx(status) == status >= 200 /\ status < 300
IsSuccessStatus(status) == status = 200

\* await response.json(): the parsed body, or the error of the parser
response_json(resp) ==
    IF resp.json.kind = "invalid"
    THEN Raised(Exc("ContentTypeError", <<"Attempt to decode JSON with unexpected mimetype">>))
    ELSE Returned(resp.json)

\* the dict literal of the return statement
ClientRecord(data) ==
    [k \in {"length", "width", "height", "encode", "status"} |-> Get(data, k)]

get_video_metadata(o) ==
    IF o.transport = "error"
    THEN Raised(Exc("ClientConnectorError", <<"Cannot connect to host">>))
    ELSE IF IsSuccessStatus(o.status)
         THEN LET parsed == response_json(o) IN
              IF parsed.raised THEN parsed
              ELSE IF parsed.value.kind # "object"
                   THEN Raised(Exc("AttributeError", <<"object has no attribute 'get'">>))
                   ELSE Returned(ClientRecord(parsed.value.data))
         ELSE Raised(Exc("Exception", <<"Failed to fetch metadata: ", o.text>>))

(***************************************************************************)
(* list_contents: the pure parts                                           *)
(***************************************************************************)
KeyError(k) == Exc("KeyError", <<"'", k, "'">>)

\* the condition of the if statement on item: its value, or the KeyError
\* raised by item['type'] or item['name'] (`and` evaluates left to right)
if_conditionAnyType(item) ==
    IF "name" \notin DOMAIN item THEN Raised(KeyError("name"))
    ELSE Returned(\E ext \in VideoExtensions : endswith(lower(item["name"].str), ext))
if_conditionGet(item) ==
    IF Get(item, "type") # Str("file") \/ "name" \notin DOMAIN item THEN Returned(FALSE)
    ELSE Returned(\E ext \in VideoExtensions : endswith(lower(item["name"].str), ext))
if_condition(item) ==
    IF "type" \notin DOMAIN item THEN Raised(KeyError("type"))
    ELSE IF item["type"] # Str("file") THEN Returned(FALSE)
    ELSE IF "name" \notin DOMAIN item THEN Raised(KeyError("name"))
    ELSE Returned(\E ext \in VideoExtensions : endswith(lower(item["name"].str), ext))

\* the dict literal assigned to item['metadata']
MetadataRecordSameKeys(metadata) ==
    [k \in {"duration", "width", "height", "encoding", "status"} |-> Get(metadata, k)]
MetadataRecord(metadata) ==
    [k \in {"duration", "width", "height", "encoding", "status"} |->
        CASE k = "duration" -> Get(metadata, "length")
          [] k = "encoding" -> Get(metadata, "encode")
          [] OTHER -> Get(metadata, k)]

\* the body of the inner try/except, given what get_video_metadata did
EnrichKeepOnError(item, result) ==
    IF result.raised THEN item
    ELSE SetItem(item, "metadata", MetadataRecord(result.value))
EnrichReuse(item, result) ==
    IF "metadata" \in DOMAIN item /\ item["metadata"] # None
    THEN SetItem(item, "metadata", MetadataRecord(item["metadata"]))
    ELSE IF result.raised THEN SetItem(item, "metadata", None)
    ELSE SetItem(item, "metadata", MetadataRecord(result.value))
Enrich(item, result) ==
    IF result.raised THEN SetItem(item, "metadata", None)
    ELSE SetItem(item, "metadata", MetadataRecord(result.value))

\* where the for loop goes after the try/except of entry n
NextIndexRetry(n, result, items) == IF result.raised THEN n ELSE n + 1
NextIndexBreak(n, result, items) == IF result.raised THEN Len(items) + 1 ELSE n + 1
NextIndex(n, result, items) == n + 1

\* the two return statements
SuccessBodyDropFailed(items) ==
    [status |-> "success",
     contents |-> SelectSeq(items, LAMBDA e : Get(e, "metadata") # None \/ "metadata" \notin DOMAIN e)]
SuccessBody(items) == [status |-> "success", contents |-> items]
ErrorBodyAsEmpty(e) == [status |-> "success", contents |-> <<>>]
ErrorBody(e) == [status |-> "error", message |-> str(e)]

(***************************************************************************)
(* The directory: entries the Directory Lister can return                  *)
(***************************************************************************)
Names ==
    { <<"a", ".", "m", "p", "4">>, <<"B", ".", "M", "O", "V">>,
      <<"c", ".", "W", "e", "b", "M">>, <<"n", ".", "t", "x", "t">>,
      <<"m", "p", "4">> }
Types == {"file", "directory"}

Entry(name, type) ==
    [k \in {"name", "type", "size"} |->
        CASE k = "name" -> Str(name) [] k = "type" -> Str(type) [] OTHER -> Num(1)]
Without(e, key) == [k \in DOMAIN e \ {key} |-> e[k]]

\* entries as the Lister's contract describes them: a name and a type
Entries == { Entry(n, t) : n \in Names, t \in Types }
\* entries of a Lister that does not keep that contract
RawNames == { <<"a", ".", "m", "p", "4">>, <<"n", ".", "t", "x", "t">> }
RawEntries ==
    LET E == { Entry(n, t) : n \in RawNames, t \in Types } IN
    E \cup { Without(e, "name") : e \in E } \cup { Without(e, "type") : e \in E }

SeqsUpTo(S, n) == UNION { [1..k -> S] : k \in 0..n }

ListerError == Exc("FileNotFoundError", <<"path not found">>)

\* get_directory_contents(path): a list of entries, or an error
get_directory_contents(d) ==
    IF d.ok THEN Returned(d.entries) ELSE Raised(ListerError)

InitWith(E, n) ==
    /\ dir \in { [ok |-> TRUE, entries |-> l] : l \in SeqsUpTo(E, n) }
               \cup { [ok |-> FALSE, entries |-> <<>>] }
    /\ shared \in BOOLEAN
    /\ remote = <<>>
    /\ pc = "idle"
    /\ call = 0
    /\ listed = <<>>
    /\ contents = <<>>
    /\ i = 0
    /\ log = <<>>
    /\ fetched = <<>>
    /\ response = None
    /\ responses = <<>>

Init == InitWith(Entries, MaxLen)
InitRaw == InitWith(RawEntries, MaxLenRaw)

(***************************************************************************)
(* list_contents, one action per step between two awaits                   *)
(***************************************************************************)
\* a request arrives and awaits get_directory_contents(path)
Call ==
    /\ pc \in {"idle", "done"}
    /\ call < MaxCalls
    /\ pc' = "listing"
    /\ call' = call + 1
    /\ listed' = <<>>
    /\ contents' = <<>>
    /\ i' = 0
    /\ log' = <<>>
    /\ fetched' = <<>>
    /\ response' = None
    /\ UNCHANGED <<dir, shared, remote, responses>>

\* get_directory_contents returns the list; the for loop starts
ListerReturns ==
    /\ pc = "listing"
    /\ ~get_directory_contents(dir).raised
    /\ contents' = get_directory_contents(dir).value
    /\ listed' = get_directory_contents(dir).value
    /\ i' = 1
    /\ pc' = "loop"
    /\ UNCHANGED <<dir, shared, remote, call, log, fetched, response, responses>>

\* get_directory_contents raises; the outer except returns the error body
ListerFails ==
    /\ pc = "listing"
    /\ get_directory_contents(dir).raised
    /\ response' = ErrorBody(get_directory_contents(dir).error)
    /\ responses' = Append(responses, response')
    /\ pc' = "done"
    /\ UNCHANGED <<dir, shared, remote, call, listed, contents, i, log, fetched>>

\* the if condition is false: the loop moves on, item is not touched
Skip ==
    /\ pc = "loop"
    /\ i <= Len(contents)
    /\ ~if_condition(contents[i]).raised
    /\ ~if_condition(contents[i]).value
    /\ i' = i + 1
    /\ UNCHANGED <<dir, shared, remote, pc, call, listed, contents, log, fetched,
                   response, responses>>

\* the if condition is true: video_id = item['name'], the GET is sent
IssueGet ==
    /\ pc = "loop"
    /\ i <= Len(contents)
    /\ ~if_condition(contents[i]).raised
    /\ if_condition(contents[i]).value
    /\ log' = Append(log, [idx |-> i, video_id |-> contents[i]["name"]])
    /\ pc' = "fetch"
    /\ UNCHANGED <<dir, shared, remote, call, listed, contents, i, fetched,
                   response, responses>>

\* the GET resolves: get_video_metadata returns or raises, the inner
\* try/except sets item['metadata'], the loop moves on
GetResolves ==
    /\ pc = "fetch"
    /\ \E o \in (IF i \in DOMAIN remote THEN {remote[i]} ELSE Outcomes) :
         LET result == get_video_metadata(o) IN
           /\ remote' = remote @@ (i :> o)
           /\ fetched' = fetched @@ (i :> result)
           /\ contents' = [contents EXCEPT ![i] = Enrich(@, result)]
           /\ dir' = IF shared THEN [dir EXCEPT !.entries = contents'] ELSE dir
           /\ i' = NextIndex(i, result, contents)
    /\ pc' = "loop"
    /\ UNCHANGED <<shared, call, listed, log, response, responses>>

\* the loop is over: return the success body
Return ==
    /\ pc = "loop"
    /\ i > Len(contents)
    /\ response' = SuccessBody(contents)
    /\ responses' = Append(responses, response')
    /\ pc' = "done"
    /\ UNCHANGED <<dir, shared, remote, call, listed, contents, i, log, fetched>>

\* the if condition raises: the outer except returns the error body
ExamineFails ==
    /\ pc = "loop"
    /\ i <= Len(contents)
    /\ if_condition(contents[i]).raised
    /\ response' = ErrorBody(if_condition(contents[i]).error)
    /\ responses' = Append(responses, response')
    /\ pc' = "done"
    /\ UNCHANGED <<dir, shared, remote, call, listed, contents, i, log, fetched>>

Next ==
    \/ Call
    \/ ListerReturns
    \/ ListerFails
    \/ Skip
    \/ IssueGet
    \/ GetResolves
    \/ Return

NextRaw ==
    \/ Next
    \/ ExamineFails

\* listings that keep the Lister's contract
Spec == Init /\ [][Next]_vars
\* listings whose entries may lack a name or a type
SpecRaw == InitRaw /\ [][NextRaw]_vars

TypeOK ==
    /\ pc \in {"idle", "listing", "loop", "fetch", "done"}
    /\ call \in 0..MaxCalls
    /\ Len(responses) <= call

(***************************************************************************)
(* Vocabulary of the properties                                            *)
(***************************************************************************)
Done == pc = "done"
Success == Done /\ response.status = "success"
FiveFields == {"duration", "width", "height", "encoding", "status"}

\* a file entry whose lowercased name ends with .mp4, .mov or .webm
EligibleVideo(e) ==
    /\ "type" \in DOMAIN e
    /\ "name" \in DOMAIN e
    /\ e["type"] = Str("file")
    /\ \E ext \in VideoExtensions : endswith(lower(e["name"].str), ext)

\* an entry on which the if condition cannot be evaluated
Malformed(e) ==
    \/ "type" \notin DOMAIN e
    \/ e["type"] = Str("file") /\ "name" \notin DOMAIN e

LogIdx == { log[n].idx : n \in 1..Len(log) }

\* the five-field record the API's JSON object b stands for
RecordOf(b) ==
    [duration |-> Get(b, "length"), width |-> Get(b, "width"),
     height |-> Get(b, "height"), encoding |-> Get(b, "encode"),
     status |-> Get(b, "status")]

(***************************************************************************)
(* C1: per-item failure isolation.  When list_contents returns for a       *)
(* listing, the status is "success" with no message, every eligible entry  *)
(* was fetched, an entry whose fetch failed carries metadata None, and     *)
(* every other entry carries what its own fetch (or the Lister) gave it,   *)
(* whatever happened to the other entries.                                 *)
(***************************************************************************)
FailureIsolation ==
    (Done /\ dir.ok) =>
        /\ DOMAIN response = {"status", "contents"}
        /\ response.status = "success"
        /\ Len(response.contents) = Len(listed)
        /\ \A k \in 1..Len(listed) :
             IF EligibleVideo(listed[k])
             THEN /\ k \in DOMAIN fetched
                  /\ response.contents[k] =
                       SetItem(listed[k], "metadata",
                               IF fetched[k].raised THEN None
                               ELSE RecordOf(fetched[k].value))
             ELSE response.contents[k] = listed[k]

FailureIsolationWitness ==
    /\ Success
    /\ \E j, k \in DOMAIN fetched :
         /\ j < k
         /\ fetched[j].raised
         /\ ~fetched[k].raised
         /\ response.contents[j]["metadata"] = None
         /\ response.contents[k]["metadata"] # None

(***************************************************************************)
(* C2: in every success response, every file entry with a video extension  *)
(* has a metadata field that is None or a record of exactly five fields.   *)
(***************************************************************************)
VideoHasMetadata ==
    Success =>
        \A k \in 1..Len(response.contents) :
            LET e == response.contents[k] IN
            EligibleVideo(e) =>
                /\ "metadata" \in DOMAIN e
                /\ \/ e["metadata"] = None
                   \/ DOMAIN e["metadata"] = FiveFields

VideoHasMetadataWitness ==
    /\ Success
    /\ call = 1
    /\ \E j, k \in 1..Len(response.contents) :
         /\ EligibleVideo(response.contents[j])
         /\ EligibleVideo(response.contents[k])
         /\ response.contents[j]["metadata"] = None
         /\ DOMAIN response.contents[k]["metadata"] = FiveFields

(***************************************************************************)
(* C3: directories (also those named like a video) and files without a     *)
(* video extension come back exactly as the Lister produced them; a        *)
(* listing without video files comes back whole, with status "success".    *)
(***************************************************************************)
NonVideoUntouched ==
    /\ Success =>
         \A k \in 1..Len(listed) :
            ~EligibleVideo(listed[k]) =>
                /\ k <= Len(response.contents)
                /\ response.contents[k] = listed[k]
    /\ (Done /\ dir.ok /\ \A k \in 1..Len(listed) : ~EligibleVideo(listed[k])) =>
         response = [status |-> "success", contents |-> listed]

NonVideoUntouchedWitness ==
    /\ Success
    /\ Len(listed) = 2
    /\ listed[1] = Entry(<<"B", ".", "M", "O", "V">>, "directory")
    /\ listed[2] = Entry(<<"n", ".", "t", "x", "t">>, "file")
    /\ response.contents = listed
    /\ "metadata" \notin DOMAIN response.contents[1]

(***************************************************************************)
(* C4: the metadata of an eligible entry whose fetch succeeded is exactly  *)
(* {duration: length, width, height, encoding: encode, status} of the      *)
(* JSON object the API answered, absent fields being None.                 *)
(***************************************************************************)
MetadataIsNormalizedRecord ==
    Success =>
        \A k \in DOMAIN fetched :
            ~fetched[k].raised =>
                /\ remote[k].json.kind = "object"
                /\ response.contents[k]["metadata"] = RecordOf(remote[k].json.data)
                /\ DOMAIN response.contents[k]["metadata"] = FiveFields

MetadataIsNormalizedRecordWitness ==
    /\ Success
    /\ \E j, k \in DOMAIN fetched :
         /\ listed[j]["name"] = Str(<<"B", ".", "M", "O", "V">>)
         /\ response.contents[j]["metadata"] =
              [duration |-> Num(120), width |-> Num(1920), height |-> Num(1080),
               encoding |-> Str("h264"), status |-> Str("ready")]
         /\ response.contents[k]["metadata"] =
              [duration |-> Num(7), width |-> None, height |-> None,
               encoding |-> None, status |-> None]

(***************************************************************************)
(* C5: when the Directory Lister fails, no GET is ever sent and the        *)
(* request returns {status: "error", message} and no contents.             *)
(***************************************************************************)
ListerFailureShortCircuits ==
    ~dir.ok =>
        /\ log = <<>>
        /\ fetched = <<>>
        /\ Done => response = [status |-> "error", message |-> <<"path not found">>]

ListerFailureShortCircuitsWitness ==
    /\ Done
    /\ ~dir.ok
    /\ response.status = "error"

(***************************************************************************)
(* C6: a success response has as many entries as the Lister returned, and  *)
(* its k-th entry has the name and the type of the Lister's k-th entry.    *)
(***************************************************************************)
OrderPreserved ==
    Success =>
        /\ Len(response.contents) = Len(listed)
        /\ \A k \in 1..Len(listed) :
             /\ k <= Len(response.contents)
             /\ response.contents[k]["name"] = listed[k]["name"]
             /\ response.contents[k]["type"] = listed[k]["type"]

OrderPreservedWitness ==
    /\ Success
    /\ Len(listed) = 2
    /\ listed[1]["name"] # listed[2]["name"]
    /\ 1 \in DOMAIN fetched /\ fetched[1].raised
    /\ 2 \in DOMAIN fetched /\ ~fetched[2].raised

(***************************************************************************)
(* C7 as stated: get_video_metadata returns a record if and only if the    *)
(* response status is exactly 200, and on every other status raises an     *)
(* error carrying the response body text.                                  *)
(***************************************************************************)
ReturnsIffStatus200 ==
    \A k \in DOMAIN fetched :
        remote[k].transport = "ok" =>
            /\ ~fetched[k].raised <=> remote[k].status = 200
            /\ remote[k].status # 200 =>
                 /\ fetched[k].raised
                 /\ fetched[k].error.msg[Len(fetched[k].error.msg)] = remote[k].text

(***************************************************************************)
(* C7 amended: get_video_metadata returns a record only if the response    *)
(* status is exactly 200, and does return the five-field record whenever   *)
(* the status is 200 and the body is a JSON object; on every other status  *)
(* (other 2xx included) it raises an error carrying the response body      *)
(* text and returns no record.                                             *)
(***************************************************************************)
ReturnsOnlyIfStatus200 ==
    \A k \in DOMAIN fetched :
        remote[k].transport = "ok" =>
            /\ ~fetched[k].raised => remote[k].status = 200
            /\ (remote[k].status = 200 /\ remote[k].json.kind = "object") =>
                 /\ ~fetched[k].raised
                 /\ DOMAIN fetched[k].value = {"length", "width", "height", "encode", "status"}
            /\ remote[k].status # 200 =>
                 /\ fetched[k].raised
                 /\ fetched[k].error.msg = <<"Failed to fetch metadata: ", remote[k].text>>

ReturnsOnlyIfStatus200Witness ==
    \E j, k \in DOMAIN fetched :
        /\ remote[j].status = 201
        /\ remote[j].json.kind = "object"
        /\ fetched[j].raised
        /\ fetched[j].error.msg = <<"Failed to fetch metadata: ", "full">>
        /\ remote[k].status = 200
        /\ ~fetched[k].raised

(***************************************************************************)
(* C8: idempotence.  All requests made against the same directory and the  *)
(* same remote answers return the same response, whether or not the        *)
(* Lister hands out the dicts an earlier request has written to.           *)
(***************************************************************************)
Idempotent ==
    \A a, b \in 1..Len(responses) : responses[a] = responses[b]

IdempotentWitness ==
    /\ Len(responses) = 2
    /\ shared
    /\ responses[2].status = "success"
    /\ \E j, k \in 1..Len(responses[2].contents) :
         /\ "metadata" \in DOMAIN listed[j]
         /\ "metadata" \in DOMAIN listed[k]
         /\ responses[2].contents[j]["metadata"] = None
         /\ responses[2].contents[k]["metadata"] = RecordOf(FullBody)

(***************************************************************************)
(* C9: within one request the GETs are sent one per eligible entry and     *)
(* for no other entry, never twice for the same entry, in listing order,   *)
(* each only after the previous one has resolved, and none before the      *)
(* Lister has returned.                                                    *)
(***************************************************************************)
OneSequentialGetPerVideo ==
    /\ \A m, n \in 1..Len(log) : m < n => log[m].idx < log[n].idx
    /\ \A n \in 1..Len(log) :
         /\ log[n].idx \in 1..Len(listed)
         /\ EligibleVideo(listed[log[n].idx])
         /\ log[n].video_id = listed[log[n].idx]["name"]
         /\ n < Len(log) => log[n].idx \in DOMAIN fetched
    /\ DOMAIN fetched \subseteq LogIdx
    /\ pc = "fetch" <=> (log # <<>> /\ log[Len(log)].idx \notin DOMAIN fetched)
    /\ pc \in {"idle", "listing"} => log = <<>>
    /\ (Done /\ dir.ok) => LogIdx = { k \in 1..Len(listed) : EligibleVideo(listed[k]) }

OneSequentialGetPerVideoWitness ==
    /\ pc = "fetch"
    /\ Len(log) = 2
    /\ fetched[log[1].idx].raised
    /\ log[2].idx \notin DOMAIN fetched

(***************************************************************************)
(* C10: when the if condition cannot be evaluated on an entry (it has no   *)
(* type, or is a file without a name), the request returns                 *)
(* {status: "error", message} without contents, although the eligible      *)
(* entries before it were fetched, and no GET is sent for an entry after   *)
(* it; a success response means every entry has been examined.             *)
(***************************************************************************)
FirstMalformed ==
    CHOOSE k \in 1..Len(listed) :
        /\ Malformed(listed[k])
        /\ \A j \in 1..(k - 1) : ~Malformed(listed[j])

MalformedEntryAbortsRequest ==
    /\ (Done /\ dir.ok /\ \E k \in 1..Len(listed) : Malformed(listed[k])) =>
         /\ DOMAIN response = {"status", "message"}
         /\ response.status = "error"
         /\ response.message \in { <<"'", "type", "'">>, <<"'", "name", "'">> }
         /\ LogIdx = { k \in 1..(FirstMalformed - 1) : EligibleVideo(listed[k]) }
         /\ DOMAIN fetched = LogIdx
    /\ Success =>
         /\ i = Len(listed) + 1
         /\ \A k \in 1..Len(listed) : ~Malformed(listed[k])
         /\ LogIdx = { k \in 1..Len(listed) : EligibleVideo(listed[k]) }

MalformedEntryAbortsRequestWitness ==
    /\ Done
    /\ response.status = "error"
    /\ Len(listed) = 3
    /\ EligibleVideo(listed[1])
    /\ Malformed(listed[2])
    /\ EligibleVideo(listed[3])
    /\ "metadata" \in DOMAIN contents[1]
    /\ "metadata" \notin DOMAIN contents[3]
    /\ LogIdx = {1}

====
